---- MODULE Spec2Model ----
(***************************************************************************)
(* The WhatsApp betting assistant of src/server.py: the webhook handler    *)
(* receive_message, its in-memory conversation state user_state, the       *)
(* users and bets tables of src/models.py, and the suspension of a handler *)
(* at its one await that touches shared state (await fetch_matches).       *)
(*                                                                         *)
(* Strings that the code parses (message bodies, sport and tournament      *)
(* keys) are sequences of one-character strings, so that strip, lower,     *)
(* startswith, split, isdigit and int are computed, not assumed.           *)
(***************************************************************************)
EXTENDS Integers, Sequences, FiniteSets, TLC

VARIABLES
    sports_list,    \* server.py:52   the catalog fetched once at startup
    user_state,     \* server.py:49   dict: sender -> conversation state entry
    users,          \* models.py:5    rows of table users, in insertion order
    bets,           \* models.py:16   rows of table bets, in insertion order
    pending,        \* handlers suspended at `await fetch_matches` (server.py:258),
                    \* each with the locals it holds
    last,           \* observation: the handler activation that produced this state
    exited,         \* observation: the senders whose latest message was an
                    \* `exit` that the exit handler intercepted
    path            \* observation: how many messages of the sequence `start`,
                    \* `1`, `1`, `1`, `bet 1` a new sender has sent so far

vars == <<sports_list, user_state, users, bets, pending, last, exited, path>>

None == "None"

-----------------------------------------------------------------------------
(* Bounds of the model.                                                    *)

\* At most this many handlers are suspended at `await fetch_matches` at once.
MaxPending == 1

\* At most this many Bet rows are inserted by message handlers in one run.
MaxNewBets == 2

-----------------------------------------------------------------------------
(* Text: Python str operations on sequences of characters.                 *)

(* The alphabet is U+0000..U+00FF, one-character strings.                  *)

\* the characters that str.lower() changes, and what it changes them to
UpperChars == <<"A","B","C","D","E","F","G","H","I","J","K","L","M",
                "N","O","P","Q","R","S","T","U","V","W","X","Y","Z",
                "À","Á","Â","Ã","Ä","Å","Æ","Ç","È","É","Ê","Ë","Ì","Í","Î",
                "Ï","Ð","Ñ","Ò","Ó","Ô","Õ","Ö","Ø","Ù","Ú","Û","Ü","Ý","Þ">>

LowerChars == <<"a","b","c","d","e","f","g","h","i","j","k","l","m",
                "n","o","p","q","r","s","t","u","v","w","x","y","z",
                "à","á","â","ã","ä","å","æ","ç","è","é","ê","ë","ì","í","î",
                "ï","ð","ñ","ò","ó","ô","õ","ö","ø","ù","ú","û","ü","ý","þ">>

\* the decimal digits, which int() reads
DigitChars == <<"0","1","2","3","4","5","6","7","8","9">>

\* the other characters for which str.isdigit() is True: superscript 2, 3, 1
SuperscriptChars == {"²", "³", "¹"}

\* the characters that strip() and split() treat as whitespace: space,
\* \t \n \r \f, U+000B, U+001C..U+001F, U+0085 and U+00A0
SpaceChars ==
    {" ", "\t", "\n", "\r", "\f", "", "", "", "", "",
     "", " "}

\* str.isspace of one character
IsSpace(c) == c \in SpaceChars

\* the separators U+001C..U+001F: whitespace for strip() and split(), not
\* for int()
SeparatorChars == {"", "", "", ""}

\* the whitespace that int() ignores around a literal
IsIntSpace(c) == c \in SpaceChars \ SeparatorChars

\* a decimal digit
DecimalChars == {DigitChars[i] : i \in 1..Len(DigitChars)}

IsDecimalChar(c) == c \in DecimalChars

\* str.isdigit of one character
IsDigitChar(c) == IsDecimalChar(c) \/ c \in SuperscriptChars

DigitVal(c) == (CHOOSE i \in 1..Len(DigitChars) : DigitChars[i] = c) - 1

\* str.lower() as a table from each character it changes to its result
LowerTable ==
    [c \in {UpperChars[i] : i \in 1..Len(UpperChars)} |->
        LowerChars[CHOOSE i \in 1..Len(UpperChars) : UpperChars[i] = c]]

LowerChar(c) == IF c \in DOMAIN LowerTable THEN LowerTable[c] ELSE c

SetMin(S) == CHOOSE x \in S : \A y \in S : x <= y

SetMax(S) == CHOOSE x \in S : \A y \in S : x >= y

\* str.strip()
Strip(s) ==
    IF \A i \in 1..Len(s) : IsSpace(s[i]) THEN <<>>
    ELSE LET first == CHOOSE i \in 1..Len(s) :
                         ~IsSpace(s[i]) /\ \A j \in 1..i - 1 : IsSpace(s[j])
             last_ == CHOOSE i \in 1..Len(s) :
                         ~IsSpace(s[i]) /\ \A j \in i + 1..Len(s) : IsSpace(s[j])
         IN SubSeq(s, first, last_)

\* the argument of int() without the whitespace int() ignores around it
IntStrip(s) ==
    IF \A i \in 1..Len(s) : IsIntSpace(s[i]) THEN <<>>
    ELSE LET first == CHOOSE i \in 1..Len(s) :
                         ~IsIntSpace(s[i]) /\ \A j \in 1..i - 1 : IsIntSpace(s[j])
             last_ == CHOOSE i \in 1..Len(s) :
                         ~IsIntSpace(s[i]) /\ \A j \in i + 1..Len(s) : IsIntSpace(s[j])
         IN SubSeq(s, first, last_)

\* str.lower()
Lower(s) == [i \in 1..Len(s) |-> LowerChar(s[i])]

\* str.startswith(p)
StartsWith(s, p) == Len(s) >= Len(p) /\ SubSeq(s, 1, Len(p)) = p

\* str.replace(" ", "_")
ReplaceSpaces(s) == [i \in 1..Len(s) |-> IF s[i] = " " THEN "_" ELSE s[i]]

\* str.split(): the maximal runs of non-whitespace characters, in order
RECURSIVE Split(_)
Split(s) ==
    LET t == Strip(s)
    IN IF t = <<>> THEN <<>>
       ELSE LET spaces == {i \in 1..Len(t) : IsSpace(t[i])}
            IN IF spaces = {} THEN <<t>>
               ELSE LET k == SetMin(spaces)
                    IN <<SubSeq(t, 1, k - 1)>> \o Split(SubSeq(t, k + 1, Len(t)))

\* str.isdigit(): non-empty and every character a digit
IsDigit(s) == Len(s) > 0 /\ \A i \in 1..Len(s) : IsDigitChar(s[i])

\* the value of a string of decimal digits that begins with a digit other
\* than 0
RECURSIVE SignificantValue(_)
SignificantValue(s) ==
    IF s = <<>> THEN 0
    ELSE 10 * SignificantValue(SubSeq(s, 1, Len(s) - 1)) + DigitVal(s[Len(s)])

\* the value of a string of decimal digits: leading zeros add nothing
DigitsValue(s) ==
    IF \A i \in 1..Len(s) : s[i] = "0" THEN 0
    ELSE LET first == CHOOSE i \in 1..Len(s) :
                         s[i] # "0" /\ \A j \in 1..i - 1 : s[j] = "0"
         IN SignificantValue(SubSeq(s, first, Len(s)))

\* sys.get_int_max_str_digits(): int() raises ValueError on a literal with
\* more decimal digits than this (leading zeros count, underscores do not)
IntMaxStrDigits == 4300

\* the digits part of an int() literal: decimal digits, with single
\* underscores allowed between two digits, and no more digits than int()
\* converts
IsIntDigits(d) ==
    /\ Len(d) > 0
    /\ Len(SelectSeq(d, IsDecimalChar)) <= IntMaxStrDigits
    /\ \A i \in 1..Len(d) :
          \/ IsDecimalChar(d[i])
          \/ /\ d[i] = "_"
             /\ i > 1 /\ i < Len(d)
             /\ IsDecimalChar(d[i - 1]) /\ IsDecimalChar(d[i + 1])

\* Faulty variant: the sign is dropped: "-1" reads as 1
ParseInt_unsigned(s) ==
    LET t == IntStrip(s)
        signed == Len(t) > 0 /\ (t[1] = "-" \/ t[1] = "+")
        digits == IF signed THEN SubSeq(t, 2, Len(t)) ELSE t
    IN IF IsIntDigits(digits)
       THEN [ok |-> TRUE, val |-> DigitsValue(SelectSeq(digits, IsDecimalChar))]
       ELSE [ok |-> FALSE, val |-> 0]

\* int(s): an optional sign and decimal digits (underscores allowed between
\* digits), whitespace around them ignored (not U+001C..U+001F); anything
\* else raises ValueError (ok = FALSE)
ParseInt(s) ==
    LET t == IntStrip(s)
        signed == Len(t) > 0 /\ (t[1] = "-" \/ t[1] = "+")
        digits == IF signed THEN SubSeq(t, 2, Len(t)) ELSE t
        value == DigitsValue(SelectSeq(digits, IsDecimalChar))
    IN IF IsIntDigits(digits)
       THEN [ok |-> TRUE,
             val |-> IF signed /\ t[1] = "-" THEN 0 - value ELSE value]
       ELSE [ok |-> FALSE, val |-> 0]

\* str(n) for n >= 0
RECURSIVE IntToStr(_)
IntToStr(n) ==
    IF n < 10 THEN <<DigitChars[n + 1]>>
    ELSE IntToStr(n \div 10) \o <<DigitChars[(n % 10) + 1]>>


-----------------------------------------------------------------------------
(* Data: senders, the catalog, the gateway's match lists, message bodies.  *)

\* the sender identifiers (form field From)
Numbers == {"u1"}

SOCCER == <<"S","o","c","c","e","r">>

TENNIS == <<"T","e","n","n","i","s">>

\* A catalog as fetch_sports returns it: sport key -> list of tournaments, in
\* the dict's insertion order. Soccer has an inactive tournament before its
\* two active ones; Tennis has no active tournament.
Catalog ==
    << [key |-> SOCCER,
        tournaments |->
          << [title |-> "La Liga", key |-> <<"E","S"," ","1">>, active |-> FALSE],
             [title |-> "EPL",     key |-> <<"U","K"," ","1">>, active |-> TRUE],
             [title |-> "UCL",     key |-> <<"E","U"," ","1">>, active |-> TRUE] >>],
       [key |-> TENNIS,
        tournaments |->
          << [title |-> "ATP", key |-> <<"A","T","P">>, active |-> FALSE] >>] >>

\* fetch_sports returns {} when the request fails (server.py:67-69)
EmptyCatalog == <<>>

Catalogs == {Catalog, EmptyCatalog}

\* Matches as the gateway's JSON gives them. MatchB has no outcomes; MatchC
\* has no sport_key and MatchD no commence_time (dict.get gives None).
MatchA ==
    [id |-> "m1", sport_key |-> "soccer_epl",
     home_team |-> "Arsenal", away_team |-> "Chelsea",
     commence_time |-> "2025-01-04T15:00:00Z",
     odds |-> [outcomes |-> << [name |-> "Arsenal", price |-> 2],
                               [name |-> "Chelsea", price |-> 3] >>]]

MatchB ==
    [id |-> "m2", sport_key |-> "soccer_epl",
     home_team |-> "Leeds", away_team |-> "Fulham",
     commence_time |-> "2025-01-05T15:00:00Z",
     odds |-> [outcomes |-> <<>>]]

MatchC ==
    [id |-> "m3", sport_key |-> None,
     home_team |-> "Ajax", away_team |-> "Porto",
     commence_time |-> "tomorrow",
     odds |-> [outcomes |-> << [name |-> "Ajax", price |-> 2] >>]]

MatchD ==
    [id |-> "m4", sport_key |-> "soccer_epl",
     home_team |-> "Lyon", away_team |-> "Nice",
     commence_time |-> None,
     odds |-> [outcomes |-> << [name |-> "Lyon", price |-> 2] >>]]

\* What the request of fetch_matches can come back with: a JSON list, an HTTP
\* error (httpx.HTTPError: timeout, non-2xx), or a body that is not JSON.
Responses ==
    { [kind |-> "json", data |-> <<MatchA, MatchB>>],
      [kind |-> "json", data |-> <<MatchC>>],
      [kind |-> "json", data |-> <<MatchD>>],
      [kind |-> "json", data |-> <<>>],
      [kind |-> "http_error", data |-> <<>>],
      [kind |-> "bad_json", data |-> <<>>] }

\* Raw message bodies (form field Body), before strip().lower()
B_start    == <<"s","t","a","r","t">>
B_Start    == <<" ","S","t","a","r","t","\n">>
B_exit     == <<"e","x","i","t">>
B_Exit     == <<" ","E","X","I","T","\r","\n">>
B_account  == <<"m","y"," ","a","c","c","o","u","n","t">>
B_hello    == <<"h","e","l","l","o">>
B_1        == <<"1">>
B_2        == <<"2">>
B_3        == <<"3">>
B_0        == <<"0">>
B_neg1     == <<"-","1">>
B_soccer   == <<"S","O","C","C","E","R">>
B_bet1     == <<"b","e","t"," ","1">>
B_Bet1     == <<"B","E","T"," ","\t","1">>
B_bet2     == <<"b","e","t"," ","2">>
B_bet3     == <<"b","e","t"," ","3">>
B_bet0     == <<"b","e","t"," ","0">>
B_bet      == <<"b","e","t">>
B_betx     == <<"b","e","t"," ","x">>
B_bet12    == <<"b","e","t"," ","1"," ","2">>
B_bets1    == <<"b","e","t","s"," ","1">>
B_epl      == <<"E","P","L">>
B_arsenal  == <<"A","r","s","e","n","a","l">>
B_betarsenal == <<"b","e","t"," ","A","r","s","e","n","a","l">>
B_0_1      == <<"0","_","1">>
B_betsup2  == <<"b","e","t"," ","²">>
\* one digit more than int() converts
B_long     == [i \in 1..IntMaxStrDigits + 1 |-> "1"]
B_betlong  == <<"b","e","t"," ">> \o B_long

Bodies ==
    { B_start, B_Start, B_exit, B_Exit, B_account, B_hello, B_1, B_2, B_3, B_0,
      B_neg1, B_soccer, B_bet1, B_Bet1, B_bet2, B_bet3, B_bet0, B_bet, B_betx,
      B_bet12, B_bets1, B_epl, B_arsenal, B_betarsenal, B_0_1, B_betsup2 }

-----------------------------------------------------------------------------
(* The tables of src/models.py and the session's commit.                   *)

\* server.py:181  coins_balance=500
InitialBalance == 500

\* server.py:379  bet_cost = 10
BetCost == 10

\* db.query(User).filter(User.whatsapp_number == from_number): the rows found
user_rows(urows, from) == {i \in 1..Len(urows) : urows[i].whatsapp_number = from}

\* `not user` after .first(): no row has that number
no_user(urows, from) == user_rows(urows, from) = {}

\* .first(): the first row found
first_user(urows, from) == urows[SetMin(user_rows(urows, from))]

\* User(whatsapp_number=..., coins_balance=500, referral_code=...) with the next
\* primary key; the referral code is a fresh uuid prefix, here the row number
new_user(urows, from) ==
    [user_id |-> Len(urows) + 1, whatsapp_number |-> from,
     coins_balance |-> InitialBalance, referral_code |-> Len(urows) + 1]

\* The NOT NULL columns of table bets that a handler can leave NULL: user_id
\* (primary keys start at 1; 0 stands for NULL) and sport_key. event_name,
\* status and cost are NOT NULL too and are always given a value.
bet_insertable(row) ==
    /\ row.user_id # 0
    /\ row.sport_key # None

\* rows get the next primary keys in order
RECURSIVE with_ids(_, _)
with_ids(rows, next) ==
    IF rows = <<>> THEN <<>>
    ELSE <<[rows[1] EXCEPT !.bet_id = next]>> \o with_ids(Tail(rows), next + 1)

\* Faulty variant: the UPDATE of users is kept when the INSERT fails
db_commit_partial(urows0, brows0, urows1, newbets) ==
    IF \A i \in 1..Len(newbets) : bet_insertable(newbets[i])
    THEN [ok |-> TRUE, users |-> urows1,
          bets |-> brows0 \o with_ids(newbets, Len(brows0) + 1)]
    ELSE [ok |-> FALSE, users |-> urows1, bets |-> brows0]

\* db.commit(): the pending UPDATE of users and INSERTs into bets are one
\* transaction; a constraint failure rolls all of it back and raises
db_commit(urows0, brows0, urows1, newbets) ==
    IF \A i \in 1..Len(newbets) : bet_insertable(newbets[i])
    THEN [ok |-> TRUE, users |-> urows1,
          bets |-> brows0 \o with_ids(newbets, Len(brows0) + 1)]
    ELSE [ok |-> FALSE, users |-> urows0, bets |-> brows0]

\* Faulty variant: the cost is taken twice
debit_twice(urows, user, cost) ==
    [i \in 1..Len(urows) |->
        IF urows[i].user_id = user.user_id
        THEN [urows[i] EXCEPT !.coins_balance = @ - 2 * cost]
        ELSE urows[i]]

\* user.coins_balance -= bet_cost on the row of `user`
debit(urows, user, cost) ==
    [i \in 1..Len(urows) |->
        IF urows[i].user_id = user.user_id
        THEN [urows[i] EXCEPT !.coins_balance = @ - cost]
        ELSE urows[i]]

\* Bet(event_name=f"{home} vs {away}", sport_key=..., match_id=..., cost=...,
\*     user_id=..., status="placed")
new_bet(match, user, cost) ==
    [bet_id |-> 0, user_id |-> user.user_id, sport_key |-> match.sport_key,
     event_name |-> <<match.home_team, "vs", match.away_team>>,
     match_id |-> match.id, status |-> "placed", cost |-> cost]

\* the active tournaments of every sport, in catalog order
RECURSIVE all_active(_)
all_active(catalog) ==
    IF catalog = <<>> THEN <<>>
    ELSE SelectSeq(catalog[1].tournaments, LAMBDA t : t.active)
           \o all_active(Tail(catalog))

\* startup_event: when table bets is empty, one placeholder row per active
\* tournament, without user_id, status by the column default, in one commit;
\* the failure of that commit is caught and logged
startup_event(catalog, brows) ==
    LET act == all_active(catalog)
        hardcoded == [i \in 1..Len(act) |->
                        [bet_id |-> 0, user_id |-> 0, sport_key |-> act[i].key,
                         event_name |-> <<act[i].title>>, match_id |-> None,
                         status |-> "pending", cost |-> 10]]
    IN IF Len(brows) = 0 /\ hardcoded # <<>>
       THEN db_commit(<<>>, brows, <<>>, hardcoded).bets
       ELSE brows

-----------------------------------------------------------------------------
(* The conversation state dict and the pieces of receive_message.          *)

EXIT == <<"e","x","i","t">>

START == <<"s","t","a","r","t">>

MY_ACCOUNT == <<"m","y"," ","a","c","c","o","u","n","t">>

BET == <<"b","e","t">>

\* user_state.get(from_number, {"state": "idle"})
get_state(us, from) == IF from \in DOMAIN us THEN us[from] ELSE [state |-> "idle"]

\* Faulty variant: the whole dict is cleared
pop_state_all(us, from) == [k \in {} |-> None]

\* user_state.pop(from_number, None)
pop_state(us, from) == [k \in DOMAIN us \ {from} |-> us[k]]

\* user_state[from_number] = entry
set_state(us, from, entry) ==
    [k \in DOMAIN us \cup {from} |-> IF k = from THEN entry ELSE us[k]]

\* form.get('Body', '').strip().lower()
normalise(body) == Lower(Strip(body))

\* What a handler activation leaves behind: the shared state, the bodies it
\* passed to send_whatsapp_message in order (the last one raised when status
\* is "500" and `raised` is "send"; "commit", "fetch", "strptime" and "int"
\* name the other calls that raise), and how it ended: "200", "403", "500"
\* (an exception left the handler) or "await" (suspended in fetch_matches).
Res(us, urows, brows, pend, sent, status, raised) ==
    [user_state |-> us, users |-> urows, bets |-> brows, pending |-> pend,
     sent |-> sent, status |-> status, raised |-> raised]

\* A branch that ends with one send_whatsapp_message and changes nothing else
Reply(us, urows, brows, pend, sent, fail) ==
    IF fail THEN Res(us, urows, brows, pend, sent, "500", "send")
    ELSE Res(us, urows, brows, pend, sent, "200", None)

\* Faulty variant: the sender check is missing
no_sender_unchecked(from) == FALSE

\* `if not from_number:`
no_sender(from) == from = ""

\* `if incoming_msg == "exit": if from_number in user_state:`
exit_intercepted(us, from, incoming_msg) ==
    incoming_msg = EXIT /\ from \in DOMAIN us

\* sport_mapping.get(input): str(idx) -> sport for the 1-based indices, then
\* updated with sport.lower() -> sport; 0 when the key is missing, else the
\* position of the sport in the catalog
sport_mapping_get(catalog, input) ==
    LET byName == {i \in 1..Len(catalog) : Lower(catalog[i].key) = input}
        byIdx  == {i \in 1..Len(catalog) : IntToStr(i) = input}
    IN IF byName # {} THEN SetMax(byName)
       ELSE IF byIdx # {} THEN SetMin(byIdx)
       ELSE 0

\* sports_list[selected_sport]
tournaments_of(catalog, sport) ==
    catalog[CHOOSE i \in 1..Len(catalog) : catalog[i].key = sport].tournaments

\* Faulty variant: inactive tournaments are kept in the list
active_tournaments_unfiltered(catalog, sport) == tournaments_of(catalog, sport)

\* [t for t in tournaments if t.get("active")]
active_tournaments(catalog, sport) ==
    SelectSeq(tournaments_of(catalog, sport), LAMBDA t : t.active)

\* `0 <= idx < len(items)`
in_range(idx, n) == 0 <= idx /\ idx < n

\* selected_tournament.get("key").lower().replace(" ", "_")
event_key_of(tournament) == ReplaceSpaces(Lower(tournament.key))

\* Faulty variant: a match without outcomes is given a placeholder outcome
outcomes_of_padded(match) ==
    IF match.odds.outcomes = <<>> THEN << [name |-> "Draw", price |-> 1] >>
    ELSE match.odds.outcomes

\* selected_match.get("odds", {}).get("outcomes", [])
outcomes_of(match) == match.odds.outcomes

\* datetime.strptime(commence_time, ...) inside `try ... except ValueError`:
\* a string that is not a date is caught and shown as it is; a missing or
\* null commence_time is not a string and raises TypeError, which is not
\* caught
strptime_raises(match) == match.commence_time = None

\* Faulty variant: the balance is checked against zero, not against the cost
has_funds_nonneg(coins_balance, bet_cost) == coins_balance >= 0

\* `user.coins_balance >= bet_cost`
has_funds(coins_balance, bet_cost) == coins_balance >= bet_cost

\* fetch_matches: the JSON body, [] on httpx.HTTPError; a body that is not
\* JSON raises from response.json() (a ValueError, which is not caught)
fetch_matches(response) ==
    IF response.kind = "json" THEN [raised |-> FALSE, matches |-> response.data]
    ELSE IF response.kind = "http_error" THEN [raised |-> FALSE, matches |-> <<>>]
    ELSE [raised |-> TRUE, matches |-> <<>>]

-----------------------------------------------------------------------------
(* The branches of receive_message after the user lookup. Each takes the   *)
(* handler's context c: the shared state as the handler finds it (us,      *)
(* users, bets, pending, catalog), its locals (from, user, state, msg) and *)
(* sent, the bodies already sent, and fail: whether its next               *)
(* send_whatsapp_message raises.                                           *)

\* current_state == "select_sport"
branch_select_sport(c) ==
    LET pos == sport_mapping_get(c.catalog, c.msg)
    IN \* `if selected_sport and selected_sport in sports_list`: a sport whose
       \* key is the empty string is falsy
       IF pos # 0 /\ c.catalog[pos].key # <<>>
       THEN LET selected_sport == c.catalog[pos].key
                us1 == set_state(c.us, c.from,
                         [state |-> "select_tournament", sport |-> selected_sport])
            IN IF active_tournaments(c.catalog, selected_sport) = <<>>
               THEN IF c.fail
                    THEN Res(us1, c.users, c.bets, c.pending,
                             Append(c.sent, "no_tournaments"), "500", "send")
                    ELSE Res(pop_state(us1, c.from), c.users, c.bets, c.pending,
                             Append(c.sent, "no_tournaments"), "200", None)
               ELSE Reply(us1, c.users, c.bets, c.pending,
                          Append(c.sent, "tournament_list"), c.fail)
       ELSE Reply(c.us, c.users, c.bets, c.pending,
                  Append(c.sent, "invalid_sport"), c.fail)

\* current_state == "select_tournament", up to `await fetch_matches(event_key)`
branch_select_tournament(c) ==
    LET parsed == ParseInt(c.msg)
        tournament_idx == parsed.val - 1
        selected_sport == c.state.sport
        active == active_tournaments(c.catalog, selected_sport)
    IN IF ~parsed.ok
       THEN Reply(c.us, c.users, c.bets, c.pending,
                  Append(c.sent, "invalid_input_tournament"), c.fail)
       ELSE IF in_range(tournament_idx, Len(active))
       THEN LET selected_tournament == active[tournament_idx + 1]
            IN Res(c.us, c.users, c.bets,
                   Append(c.pending,
                          [from |-> c.from, state |-> c.state, msg |-> c.msg,
                           sport |-> selected_sport,
                           tournament |-> selected_tournament,
                           event_key |-> event_key_of(selected_tournament)]),
                   c.sent, "await", None)
       ELSE Reply(c.us, c.users, c.bets, c.pending,
                  Append(c.sent, "invalid_tournament"), c.fail)

\* the rest of the select_tournament branch, when fetch_matches has returned
\* `fetched` to the suspended handler h
resume_select_tournament(us, urows, brows, h, fetched, fail) ==
    IF fetched.raised
    THEN [user_state |-> us, users |-> urows, bets |-> brows,
          sent |-> <<>>, status |-> "500", raised |-> "fetch"]
    ELSE IF fetched.matches = <<>>
    THEN IF fail
         THEN [user_state |-> us, users |-> urows, bets |-> brows,
               sent |-> <<"no_matches">>, status |-> "500", raised |-> "send"]
         ELSE [user_state |-> pop_state(us, h.from), users |-> urows, bets |-> brows,
               sent |-> <<"no_matches">>, status |-> "200", raised |-> None]
    ELSE LET us1 == set_state(us, h.from,
                              [state |-> "select_match", sport |-> h.sport,
                               tournament |-> h.tournament.title,
                               matches |-> fetched.matches])
         IN \* the list is composed after the state is stored
            IF \E i \in 1..Len(fetched.matches) : strptime_raises(fetched.matches[i])
            THEN [user_state |-> us1, users |-> urows, bets |-> brows,
                  sent |-> <<>>, status |-> "500", raised |-> "strptime"]
            ELSE [user_state |-> us1, users |-> urows, bets |-> brows,
                  sent |-> <<"match_list">>,
                  status |-> IF fail THEN "500" ELSE "200",
                  raised |-> IF fail THEN "send" ELSE None]

\* Faulty variant: the no-outcomes reply also discards the conversation state
no_outcomes_reset(c) ==
    Reply(pop_state(c.us, c.from), c.users, c.bets, c.pending,
          Append(c.sent, "no_outcomes"), c.fail)

\* `if not outcomes:` send the no-outcomes message and return
no_outcomes(c) ==
    Reply(c.us, c.users, c.bets, c.pending, Append(c.sent, "no_outcomes"), c.fail)

\* current_state == "select_match"
branch_select_match(c) ==
    LET parsed == ParseInt(c.msg)
        match_idx == parsed.val - 1
        matches == c.state.matches
    IN IF ~parsed.ok
       THEN Reply(c.us, c.users, c.bets, c.pending,
                  Append(c.sent, "invalid_input_match"), c.fail)
       ELSE IF in_range(match_idx, Len(matches))
       THEN LET selected_match == matches[match_idx + 1]
            IN IF outcomes_of(selected_match) = <<>>
               THEN no_outcomes(c)
               ELSE IF strptime_raises(selected_match)
               THEN Res(c.us, c.users, c.bets, c.pending, c.sent, "500", "strptime")
               ELSE IF c.fail
               THEN Res(c.us, c.users, c.bets, c.pending,
                        Append(c.sent, "outcome_list"), "500", "send")
               ELSE Res(set_state(c.us, c.from,
                                  [state |-> "place_bet", sport |-> c.state.sport,
                                   tournament |-> c.state.tournament,
                                   match |-> selected_match]),
                        c.users, c.bets, c.pending,
                        Append(c.sent, "outcome_list"), "200", None)
       ELSE Reply(c.us, c.users, c.bets, c.pending,
                  Append(c.sent, "invalid_match"), c.fail)

\* Faulty variant: the insufficient-balance reply also discards the conversation state
insufficient_balance_reset(c) ==
    Reply(pop_state(c.us, c.from), c.users, c.bets, c.pending,
          Append(c.sent, "insufficient_balance"), c.fail)

\* the else of `if user.coins_balance >= bet_cost:`
insufficient_balance(c) ==
    Reply(c.us, c.users, c.bets, c.pending,
          Append(c.sent, "insufficient_balance"), c.fail)

\* current_state == "place_bet". The guard `if not match:` of the code is not
\* modelled: every place_bet entry is written with a match (a non-empty dict).
branch_place_bet(c) ==
    IF StartsWith(c.msg, BET)
    THEN LET parts == Split(c.msg)
         IN IF Len(parts) # 2 \/ ~IsDigit(parts[2])
            THEN Reply(c.us, c.users, c.bets, c.pending,
                       Append(c.sent, "invalid_bet_format"), c.fail)
            ELSE LET parsed == ParseInt(parts[2])
                     bet_choice == parsed.val - 1
                     match == c.state.match
                     outcomes == outcomes_of(match)
                     bet_cost == BetCost
                 IN \* int(parts[1]) outside any try: isdigit() is True for
                    \* characters that int() does not read
                    IF ~parsed.ok
                    THEN Res(c.us, c.users, c.bets, c.pending, c.sent, "500", "int")
                    ELSE IF in_range(bet_choice, Len(outcomes))
                    THEN IF has_funds(c.user.coins_balance, bet_cost)
                         THEN LET done == db_commit(c.users, c.bets,
                                              debit(c.users, c.user, bet_cost),
                                              <<new_bet(match, c.user, bet_cost)>>)
                              IN IF ~done.ok
                                 THEN Res(c.us, done.users, done.bets, c.pending,
                                          c.sent, "500", "commit")
                                 ELSE IF c.fail
                                 THEN Res(c.us, done.users, done.bets, c.pending,
                                          Append(c.sent, "bet_placed"), "500", "send")
                                 ELSE Res(pop_state(c.us, c.from), done.users,
                                          done.bets, c.pending,
                                          Append(c.sent, "bet_placed"), "200", None)
                         ELSE insufficient_balance(c)
                    ELSE Reply(c.us, c.users, c.bets, c.pending,
                               Append(c.sent, "invalid_bet_selection"), c.fail)
    ELSE Reply(c.us, c.users, c.bets, c.pending,
               Append(c.sent, "invalid_command_place_bet"), c.fail)

\* server.py:434  .limit(5), and `total_bets > 5`, `total_bets - 5` at 465-466
HistoryLimit == 5

\* the highest bet id among the first i rows (primary keys start at 1)
RECURSIVE max_bet_id(_, _)
max_bet_id(rows, i) ==
    IF i = 0 THEN 0
    ELSE LET m == max_bet_id(rows, i - 1)
         IN IF rows[i].bet_id > m THEN rows[i].bet_id ELSE m

\* .order_by(Bet.bet_id.desc()).limit(n).all(): the n rows with the highest
\* bet ids, highest first
RECURSIVE order_by_bet_id_desc(_, _)
order_by_bet_id_desc(rows, n) ==
    IF n = 0 \/ rows = <<>> THEN <<>>
    ELSE LET top == max_bet_id(rows, Len(rows))
         IN SelectSeq(rows, LAMBDA b : b.bet_id = top)
              \o order_by_bet_id_desc(SelectSeq(rows, LAMBDA b : b.bet_id # top), n - 1)

\* db.query(Bet).filter(Bet.user_id == user.user_id)
bets_of_user(brows, user) == SelectSeq(brows, LAMBDA b : b.user_id = user.user_id)

\* What account_message tells: balance, referral code, the rows listed and
\* the number in "...and {total_bets - 5} more bets" (0: the line is absent,
\* as it is when no row is listed)
account_message(brows, user) ==
    LET shown == order_by_bet_id_desc(bets_of_user(brows, user), HistoryLimit)
        total_bets == Len(bets_of_user(brows, user))
    IN [balance |-> user.coins_balance,
        referral_code |-> user.referral_code,
        bets |-> shown,
        more |-> IF shown # <<>> /\ total_bets > HistoryLimit
                 THEN total_bets - HistoryLimit ELSE 0]

\* the handler composed no account message
NoReport == [balance |-> 0, referral_code |-> 0, bets |-> <<>>, more |-> 0]

\* any other current_state: the commands of idle
branch_idle(c) ==
    IF c.msg = START
    THEN Reply(set_state(c.us, c.from, [state |-> "select_sport"]),
               c.users, c.bets, c.pending, Append(c.sent, "sport_list"), c.fail)
    ELSE IF c.msg = MY_ACCOUNT
    THEN [report |-> account_message(c.bets, c.user)]
           @@ Reply(c.us, c.users, c.bets, c.pending, Append(c.sent, "account"), c.fail)
    ELSE Reply(c.us, c.users, c.bets, c.pending,
               Append(c.sent, "invalid_command"), c.fail)

\* `if current_state == ... elif ... else`
dispatch(c) ==
    IF c.state.state = "select_sport" THEN branch_select_sport(c)
    ELSE IF c.state.state = "select_tournament" THEN branch_select_tournament(c)
    ELSE IF c.state.state = "select_match" THEN branch_select_match(c)
    ELSE IF c.state.state = "place_bet" THEN branch_place_bet(c)
    ELSE branch_idle(c)

\* receive_message from its first line to its return, its exception or its
\* suspension in fetch_matches. sigOk: validator.validate(...); from: the
\* stripped From field ("" when absent); sendFail: which of the handler's
\* send_whatsapp_message calls raises (0: none).
receive_message(us, urows, brows, pend, catalog, sigOk, from, body, sendFail) ==
    LET incoming_msg == normalise(body)
    IN IF ~sigOk
       THEN Res(us, urows, brows, pend, <<>>, "403", None)
       ELSE IF no_sender(from)
       THEN Res(us, urows, brows, pend, <<>>, "200", None)
       ELSE IF exit_intercepted(us, from, incoming_msg)
       THEN Reply(pop_state(us, from), urows, brows, pend,
                  <<"exit_confirmation">>, sendFail = 1)
       ELSE IF no_user(urows, from)
       THEN LET urows1 == Append(urows, new_user(urows, from))
            IN IF sendFail = 1
               THEN Res(us, urows1, brows, pend, <<"welcome">>, "500", "send")
               ELSE dispatch([us |-> us, users |-> urows1, bets |-> brows,
                              pending |-> pend, catalog |-> catalog, from |-> from,
                              user |-> first_user(urows1, from),
                              state |-> get_state(us, from), msg |-> incoming_msg,
                              sent |-> <<"welcome">>, fail |-> sendFail = 2])
       ELSE dispatch([us |-> us, users |-> urows, bets |-> brows,
                      pending |-> pend, catalog |-> catalog, from |-> from,
                      user |-> first_user(urows, from),
                      state |-> get_state(us, from), msg |-> incoming_msg,
                      sent |-> <<>>, fail |-> sendFail = 1])

-----------------------------------------------------------------------------
(* The state machine.                                                      *)

\* the rows of table bets owned by the account of `from`
bets_of(urows, brows, from) ==
    IF no_user(urows, from) THEN <<>>
    ELSE SelectSeq(brows, LAMBDA b : b.user_id = first_user(urows, from).user_id)

\* the rows that handlers of this run have inserted: the rows the database
\* file already held are bets on an earlier match, which is no longer served
placed_rows(brows) == SelectSeq(brows, LAMBDA b : b.match_id # "m0")

\* What the handler found when it started: the sender's conversation state
\* (the local `state`), whether the sender's previous message was an
\* intercepted `exit`, whether the sender had an account, its balance, the
\* number of its Bet rows, of all Bet rows, of accounts and of suspended
\* handlers.
Pre(from) ==
    [state |-> get_state(user_state, from),
     after_exit |-> from \in exited,
     account |-> from # "" /\ ~no_user(users, from),
     balance |-> IF from = "" \/ no_user(users, from) THEN 0
                 ELSE first_user(users, from).coins_balance,
     nbets |-> IF from = "" THEN 0 ELSE Len(bets_of(users, bets, from)),
     nrows |-> Len(bets),
     nusers |-> Len(users),
     npending |-> Len(pending)]

\* The table bets an earlier run of the process left behind for a user who has
\* spent all but one bet's worth of the initial balance: rows written by
\* place_bet for an earlier match m0.
RECURSIVE earlier_bets(_, _)
earlier_bets(user_id, n) ==
    IF n = 0 THEN <<>>
    ELSE Append(earlier_bets(user_id, n - 1),
                [bet_id |-> n, user_id |-> user_id, sport_key |-> MatchA.sport_key,
                 event_name |-> <<MatchA.home_team, "vs", MatchA.away_team>>,
                 match_id |-> "m0", status |-> "placed", cost |-> BetCost])

\* The database file as the process finds it at startup: empty, or holding the
\* account of u1 with one bet's worth of coins left and the bets that spent
\* the rest.
Databases ==
    { [users |-> <<>>, bets |-> <<>>],
      [users |-> << [user_id |-> 1, whatsapp_number |-> "u1",
                     coins_balance |-> BetCost, referral_code |-> 1] >>,
       bets |-> earlier_bets(1, (InitialBalance - BetCost) \div BetCost)] }

\* After module load and startup_event: no conversation state, the catalog
\* fetched (or {} when that failed), the database opened and seeded.
Init ==
    /\ sports_list \in Catalogs
    /\ user_state = [k \in {} |-> None]
    /\ \E db \in Databases :
          /\ users = db.users
          /\ bets = startup_event(sports_list, db.bets)
    /\ pending = <<>>
    /\ exited = {}
    /\ last = [kind |-> "startup", from |-> "", body |-> <<>>, sent |-> <<>>,
               status |-> "200", raised |-> None, pre |-> Pre(""),
               sigOk |-> TRUE, read |-> [state |-> "idle"],
               response |-> [kind |-> None, data |-> <<>>],
               report |-> NoReport]
    /\ path = [from |-> "", step |-> 0, delivered |-> TRUE, clean |-> TRUE]

\* One webhook request runs receive_message up to its return, its exception
\* or its suspension: every statement between two awaits runs without
\* interleaving on the event loop.
Receive(sigOk, from, body, sendFail) ==
    \E r \in {receive_message(user_state, users, bets, pending, sports_list,
                              sigOk, from, body, sendFail)} :
       /\ Len(r.pending) <= MaxPending
       /\ Len(placed_rows(r.bets)) <= MaxNewBets
       /\ user_state' = r.user_state
       /\ users' = r.users
       /\ bets' = r.bets
       /\ pending' = r.pending
       /\ last' = [kind |-> "receive", from |-> from, body |-> body,
                   sent |-> r.sent, status |-> r.status, raised |-> r.raised,
                   pre |-> Pre(from), sigOk |-> sigOk,
                   read |-> get_state(user_state, from),
                   response |-> [kind |-> None, data |-> <<>>],
                   report |-> IF "report" \in DOMAIN r THEN r.report ELSE NoReport]
       /\ exited' = IF r.status = "403" \/ from = "" THEN exited
                    ELSE IF exit_intercepted(user_state, from, normalise(body))
                         THEN exited \cup {from}
                         ELSE exited \ {from}
       /\ UNCHANGED sports_list

\* fetch_matches returns (or raises) and the i-th suspended handler runs on
\* to its end.
FetchReturn(i, response, fail) ==
    /\ i \in 1..Len(pending)
    /\ \E h \in {pending[i]} :
       \E r \in {resume_select_tournament(user_state, users, bets, h,
                                          fetch_matches(response), fail)} :
          /\ user_state' = r.user_state
          /\ users' = r.users
          /\ bets' = r.bets
          /\ pending' = SubSeq(pending, 1, i - 1) \o SubSeq(pending, i + 1, Len(pending))
          /\ last' = [kind |-> "resume", from |-> h.from, body |-> h.msg,
                      sent |-> r.sent, status |-> r.status, raised |-> r.raised,
                      pre |-> Pre(h.from), sigOk |-> TRUE,
                      read |-> h.state, response |-> response,
                      report |-> NoReport]
    /\ UNCHANGED <<sports_list, exited>>

\* The observation `path`. step counts the messages of the sequence `start`,
\* `1`, `1`, `1`, `bet 1` that sender `from` has sent, one after the other
\* and nothing else between them, beginning with a `start` that was the
\* first message of a sender without an account, under a catalog whose first
\* sport has an active tournament; the handler suspended by the second `1`
\* has resumed, with a fetched list whose first match has an outcome, before
\* the third `1` is sent. Any other message of the sender, or any other
\* fetch result, ends the count. delivered: every reply of the sequence has
\* been delivered so far; clean: no handler of the sequence has ended with
\* an exception so far.
FirstSportActive(catalog) ==
    /\ Len(catalog) >= 1
    /\ \E i \in 1..Len(catalog[1].tournaments) : catalog[1].tournaments[i].active

GoodFetch(response) ==
    /\ response.kind = "json"
    /\ Len(response.data) >= 1
    /\ \A i \in 1..Len(response.data) : response.data[i].commence_time # None
    /\ Len(response.data[1].odds.outcomes) >= 1

OffPath == [from |-> "", step |-> 0, delivered |-> TRUE, clean |-> TRUE]

HappyStep(p, l, catalog) ==
    LET ok == l.raised = None
        sent == l.raised # "send"
    IN IF l.kind = "resume"
       THEN IF l.from # p.from THEN p
            ELSE IF p.step = 3 /\ GoodFetch(l.response)
            THEN [p EXCEPT !.delivered = @ /\ sent, !.clean = @ /\ ok]
            ELSE OffPath
       ELSE IF ~l.sigOk \/ l.from = "" THEN p
       ELSE IF ~l.pre.account /\ l.body = B_start /\ FirstSportActive(catalog)
       THEN [from |-> l.from, step |-> 1, delivered |-> sent, clean |-> ok]
       ELSE IF l.from # p.from THEN p
       ELSE IF p.step \in {1, 2} /\ l.body = B_1
       THEN [p EXCEPT !.step = @ + 1, !.delivered = @ /\ sent, !.clean = @ /\ ok]
       ELSE IF p.step = 3 /\ l.body = B_1 /\ l.pre.npending = 0
       THEN [p EXCEPT !.step = 4, !.delivered = @ /\ sent, !.clean = @ /\ ok]
       ELSE IF p.step = 4 /\ l.body = B_bet1
       THEN [p EXCEPT !.step = 5, !.delivered = @ /\ sent, !.clean = @ /\ ok]
       ELSE OffPath

Track == path' = HappyStep(path, last', sports_list)

\* Requests that are rejected before the state machine carry one of two bodies.
RejectedBodies == {B_Start, B_bet1}

\* Texts that are a selection, or a refused selection, only in some states
\* are sent in those states: an index other than 1 and 2 and the sport name
\* where an index or a name is read, a tournament title in select_tournament,
\* a team name in select_match, the `bet` commands other than `bet 1` in
\* place_bet. In every other state each of them gets that state's reply to
\* an unknown text, as B_hello does.
NameBodies ==
    [select_sport |-> {B_3, B_0, B_neg1, B_soccer},
     select_tournament |-> {B_3, B_0, B_neg1, B_0_1, B_epl},
     select_match |-> {B_3, B_0, B_neg1, B_0_1, B_arsenal},
     place_bet |-> {B_bet2, B_bet3, B_bet0, B_bet, B_betx, B_bet12, B_bets1,
                    B_betarsenal, B_betsup2}]

NameFits(us, from, body) ==
    (\E st \in DOMAIN NameBodies : body \in NameBodies[st])
    => \E st \in DOMAIN NameBodies :
          body \in NameBodies[st] /\ get_state(us, from).state = st

\* A literal longer than int() converts is refused like B_hello in
\* select_tournament and select_match, and `bet` with such a literal ends
\* like B_betsup2 in place_bet. They are sent there by a sender that is on
\* its first walk through the selections (see path) with every reply
\* delivered and no exception so far, and their replies are delivered.
LongBodies ==
    [select_tournament |-> {B_long}, select_match |-> {B_long},
     place_bet |-> {B_betlong}]

LongFits(us, p, from) ==
    /\ p.from = from
    /\ p.step >= 2
    /\ p.delivered /\ p.clean
    /\ get_state(us, from).state \in DOMAIN LongBodies

\* A delivery can fail only where the resumed handler sends.
ResponseFits(response, fail) ==
    LET unsent == \/ response.kind = "bad_json"
                  \/ \E i \in 1..Len(response.data) : strptime_raises(response.data[i])
    IN fail => ~unsent

Next ==
    \/ \E from \in Numbers, body \in Bodies, sendFail \in 0..2 :
          \* a second send_whatsapp_message call follows only the welcome
          /\ sendFail = 2 => no_user(users, from)
          /\ NameFits(user_state, from, body)
          /\ Receive(TRUE, from, body, sendFail)
          /\ Track
    \/ \E from \in Numbers :
          /\ LongFits(user_state, path, from)
          /\ \E body \in LongBodies[get_state(user_state, from).state] :
                /\ Receive(TRUE, from, body, 0)
                /\ Track
    \/ \E from \in Numbers \cup {""}, body \in RejectedBodies, sigOk \in BOOLEAN :
          /\ ~sigOk \/ from = ""
          /\ Receive(sigOk, from, body, 0)
          /\ Track
    \/ \E i \in 1..MaxPending + 1, response \in Responses, fail \in BOOLEAN :
          /\ ResponseFits(response, fail)
          /\ FetchReturn(i, response, fail)
          /\ Track

Spec == Init /\ [][Next]_vars

\* Two senders, whose requests and resumed handlers interleave in any order.
\* Each sends the messages of a bet placement and `exit`; every reply is
\* delivered.
TwoNumbers == {"u1", "u2"}

TwoUserBodies == {B_start, B_1, B_bet1, B_exit}

TwoUserResponses ==
    { [kind |-> "json", data |-> <<MatchA, MatchB>>],
      [kind |-> "json", data |-> <<>>] }

NextTwoUsers ==
    \/ \E from \in TwoNumbers, body \in TwoUserBodies :
          /\ Receive(TRUE, from, body, 0)
          /\ UNCHANGED path
    \/ \E i \in 1..MaxPending + 1, response \in TwoUserResponses :
          /\ FetchReturn(i, response, FALSE)
          /\ UNCHANGED path

\* The two-sender runs start after startup_event on a fresh database with the
\* catalog fetched: both senders are unseen and get their accounts on their
\* first messages.
InitTwoUsers ==
    /\ Init
    /\ sports_list = Catalog
    /\ users = <<>>

SpecTwoUsers == InitTwoUsers /\ [][NextTwoUsers]_vars

-----------------------------------------------------------------------------
(* Reading the observation `last`, and what a message text means to the    *)
(* specification. These tables give the intended meaning of each body and  *)
(* do not use the parsing operators of the model.                          *)

\* the last activation was a request that passed the signature and sender checks
Reached == last.kind = "receive" /\ last.status # "403" /\ last.from # ""

\* the conversation state of the last sender now
StateNow == get_state(user_state, last.from)

\* the balance of the last sender now (the sender has an account)
BalanceNow == first_user(users, last.from).coins_balance

\* the Bet rows of the last sender now
BetsNow == bets_of(users, bets, last.from)

\* the global command `exit`, in any case and with surrounding whitespace
IsExitText(body) == body \in {B_exit, B_Exit}

\* the command `start`
IsStartText(body) == body \in {B_start, B_Start}

\* a text that is an integer, and its value
IsIntText(body) == body \in {B_1, B_2, B_3, B_0, B_neg1, B_0_1}

IntOf(body) ==
    CASE body = B_1 -> 1
      [] body = B_2 -> 2
      [] body = B_3 -> 3
      [] body = B_0_1 -> 1
      [] body = B_neg1 -> 0 - 1
      [] OTHER -> 0

\* the n of a text `bet n` with n a positive integer, 0 for every other text
BetN(body) ==
    CASE body \in {B_bet1, B_Bet1} -> 1
      [] body = B_bet2 -> 2
      [] body = B_bet3 -> 3
      [] OTHER -> 0

\* a text that begins with the word `bet` as a token of its own
IsBetCommand(body) ==
    body \in {B_bet1, B_Bet1, B_bet2, B_bet3, B_bet0, B_bet, B_betx, B_bet12,
              B_betarsenal, B_betsup2, B_betlong}

\* the number of outcomes of a stored match
NOutcomes(match) == Len(match.odds.outcomes)

\* a text that names a sport of the catalog, case-insensitively
NamesSport(body) ==
    body = B_soccer /\ \E i \in 1..Len(sports_list) : sports_list[i].key = SOCCER

\* the number of active tournaments of a sport of the catalog
NActive(sport) ==
    LET ts == sports_list[CHOOSE i \in 1..Len(sports_list) :
                              sports_list[i].key = sport].tournaments
    IN Cardinality({i \in 1..Len(ts) : ts[i].active})

\* the last request was a `bet n` with n an outcome of the stored match,
\* handled in state place_bet
ValidBetInPlaceBet ==
    /\ Reached
    /\ last.pre.state.state = "place_bet"
    /\ BetN(last.body) \in 1..NOutcomes(last.pre.state.match)

-----------------------------------------------------------------------------
(* C1. Two `bet n` messages of one user in place_bet whose balance covers  *)
(* exactly one bet. The handler has no await between reading the state and *)
(* the balance and popping the state, so the two handlers run one after    *)
(* the other: `last` is the first of them, last' the second.               *)

TwoBets ==
    /\ ValidBetInPlaceBet
    /\ last.pre.balance >= BetCost
    /\ last.pre.balance < 2 * BetCost
    /\ last'.kind = "receive"
    /\ last'.status # "403"
    /\ last'.from = last.from
    /\ BetN(last'.body) \in 1..NOutcomes(last.pre.state.match)

Rejections == {<<"insufficient_balance">>, <<"invalid_command">>}

ExactlyOnePlaced ==
    /\ first_user(users', last.from).coins_balance = last.pre.balance - BetCost
    /\ Len(bets_of(users', bets', last.from)) = last.pre.nbets + 1
    /\ \/ last.sent = <<"bet_placed">> /\ last'.sent \in Rejections
       \/ last'.sent = <<"bet_placed">> /\ last.sent \in Rejections

AtMostOnePlaced ==
    \E d \in {0, 1} :
       /\ Len(bets_of(users', bets', last.from)) = last.pre.nbets + d
       /\ first_user(users', last.from).coins_balance = last.pre.balance - d * BetCost

\* C1: of two `bet n` messages (valid n) of a user in place_bet with
\* BetCost <= balance < 2 * BetCost, exactly one places the bet: the balance
\* ends one BetCost lower, one Bet row is added, and the other message gets
\* the insufficient-balance reply or is handled from idle.
C1_ExactlyOnePlacement == [][TwoBets => ExactlyOnePlaced]_vars

\* The part of C1 that holds: at most one of the two places the bet (the
\* balance is never deducted twice, two rows are never added), and exactly
\* one does when no db.commit raised; a failed write deducts nothing and
\* adds no row.
AtMostOnePlacement ==
    [][TwoBets =>
         /\ AtMostOnePlaced
         /\ (last.raised # "commit" /\ last'.raised # "commit" => ExactlyOnePlaced)]_vars

\* The second `bet n` has been handled after a placement of this run took the
\* balance below the cost: rejected in place_bet, or handled from idle.
SecondBetRejected ==
    /\ Reached
    /\ BetN(last.body) >= 1
    /\ last.sent \in Rejections
    /\ last.pre.account
    /\ last.pre.balance < BetCost
    /\ Len(placed_rows(bets_of(users, bets, last.from))) = 1

-----------------------------------------------------------------------------
\* C2: in place_bet, `bet n` with n an outcome of the stored match and
\* balance >= BetCost lowers the balance by exactly BetCost, appends exactly
\* one Bet row owned by the user with status placed, cost BetCost and the match
\* id and sport key of the stored match, and makes the state idle.
C2_BetPlacementEffect ==
    ValidBetInPlaceBet /\ last.pre.balance >= BetCost =>
       /\ BalanceNow = last.pre.balance - BetCost
       /\ Len(bets) = last.pre.nrows + 1
       /\ Len(BetsNow) = last.pre.nbets + 1
       /\ bets[Len(bets)].user_id = first_user(users, last.from).user_id
       /\ bets[Len(bets)].status = "placed"
       /\ bets[Len(bets)].cost = BetCost
       /\ bets[Len(bets)].match_id = last.pre.state.match.id
       /\ bets[Len(bets)].sport_key = last.pre.state.match.sport_key
       /\ StateNow = [state |-> "idle"]

-----------------------------------------------------------------------------
\* C3: in place_bet, `bet n` with n an outcome of the stored match and
\* balance < BetCost leaves the balance, the ledger and the conversation state
\* (place_bet with the same match) as they were, and the reply is the
\* insufficient-balance message.
C3_InsufficientBalanceNoChange ==
    ValidBetInPlaceBet /\ last.pre.balance < BetCost =>
       /\ BalanceNow = last.pre.balance
       /\ Len(bets) = last.pre.nrows
       /\ StateNow = last.pre.state
       /\ last.sent = <<"insufficient_balance">>

C3_Witness ==
    /\ ValidBetInPlaceBet
    /\ last.pre.balance < BetCost
    /\ StateNow.state = "place_bet"
    /\ last.sent = <<"insufficient_balance">>

-----------------------------------------------------------------------------
\* C4: in every reachable state every account's balance is a non-negative
\* integer.
C4_BalanceNonNegative ==
    \A i \in 1..Len(users) : users[i].coins_balance \in Nat

\* A placement has just spent the last coins of an account.
C4_Witness ==
    /\ ValidBetInPlaceBet
    /\ last.sent = <<"bet_placed">>
    /\ last.pre.balance = BetCost
    /\ BalanceNow = 0

-----------------------------------------------------------------------------
\* C5: in every reachable state each account's balance is InitialBalance minus
\* BetCost times the number of Bet rows it owns, every Bet row is owned by an
\* account, and a placement whose ledger write failed has left the persisted
\* balance and the table bets as they were.
C5_BalanceMatchesLedger ==
    /\ \A i \in 1..Len(users) :
          users[i].coins_balance =
             InitialBalance
               - BetCost * Cardinality({j \in 1..Len(bets) :
                                           bets[j].user_id = users[i].user_id})
    /\ \A j \in 1..Len(bets) :
          \E i \in 1..Len(users) : users[i].user_id = bets[j].user_id
    /\ (last.raised = "commit" =>
          /\ BalanceNow = last.pre.balance
          /\ Len(bets) = last.pre.nrows)

\* The ledger write of a placement that the balance covered has failed.
C5_Witness ==
    /\ ValidBetInPlaceBet
    /\ last.raised = "commit"
    /\ last.pre.balance >= BetCost

-----------------------------------------------------------------------------
\* the last request was `exit`, handled when the sender had a state entry
ExitFromNonIdle ==
    /\ Reached
    /\ IsExitText(last.body)
    /\ last.pre.state.state # "idle"

\* the last request was a `start`, and the message of the same sender before
\* it was an `exit` handled from a non-idle state
StartAfterExit ==
    /\ Reached
    /\ IsStartText(last.body)
    /\ last.pre.after_exit

\* C6: `exit` (in any case, with surrounding whitespace) from a non-idle state
\* makes the state idle and changes no balance and no Bet row, and the `start`
\* that follows it as the sender's next message makes the state select_sport
\* with no payload at all.
C6_ExitThenStartIsFresh ==
    /\ ExitFromNonIdle =>
          /\ StateNow = [state |-> "idle"]
          /\ BalanceNow = last.pre.balance
          /\ Len(BetsNow) = last.pre.nbets
          /\ Len(bets) = last.pre.nrows
    /\ StartAfterExit => StateNow = [state |-> "select_sport"]

\* The same, for a `start` that is handled before any handler suspended in
\* fetch_matches resumes: this holds.
ExitThenStartWithoutResume ==
    [][ /\ ExitFromNonIdle
        /\ last'.kind = "receive"
        /\ last'.status # "403"
        /\ last'.from = last.from
        /\ IsStartText(last'.body)
        => get_state(user_state', last.from) = [state |-> "select_sport"] ]_vars

-----------------------------------------------------------------------------
\* the last request was `exit`, handled when the sender had no state entry
ExitAtIdle ==
    /\ Reached
    /\ IsExitText(last.body)
    /\ last.pre.state.state = "idle"

\* C7: `exit` from a sender without a state entry is not intercepted: the exit
\* confirmation is not sent, the message is processed by the idle branch,
\* whose reply is the invalid-command help (after the welcome when the
\* sender is new), and the state stays idle.
C7_ExitAtIdleNotIntercepted ==
    ExitAtIdle =>
       /\ StateNow = [state |-> "idle"]
       /\ \A i \in 1..Len(last.sent) : last.sent[i] # "exit_confirmation"
       /\ \/ last.sent = <<"invalid_command">>
          \/ last.sent = <<"welcome", "invalid_command">>

\* The same for a sender that has an account already: this holds.
ExitAtIdleWithAccount ==
    ExitAtIdle /\ last.pre.account =>
       /\ StateNow = [state |-> "idle"]
       /\ last.sent = <<"invalid_command">>

-----------------------------------------------------------------------------
\* the last request was an invalid selection for the state it was handled in
InvalidSelection ==
    /\ Reached
    /\ ~IsExitText(last.body)
    /\ \/ /\ last.pre.state.state = "select_sport"
          /\ ~(IsIntText(last.body) /\ IntOf(last.body) \in 1..Len(sports_list))
          /\ ~NamesSport(last.body)
       \/ /\ last.pre.state.state = "select_tournament"
          /\ \/ ~IsIntText(last.body)
             \/ IntOf(last.body) \notin 1..NActive(last.pre.state.sport)
       \/ /\ last.pre.state.state = "select_match"
          /\ \/ ~IsIntText(last.body)
             \/ IntOf(last.body) \notin 1..Len(last.pre.state.matches)
       \/ /\ last.pre.state.state = "place_bet"
          /\ IsBetCommand(last.body)
          /\ BetN(last.body) \notin 1..NOutcomes(last.pre.state.match)

\* C8: an invalid selection leaves the conversation state with its payload,
\* the balance and the ledger as they were, and starts no fetch; so the same
\* invalid input sent again finds, and leaves, the same state.
C8_InvalidSelectionNoChange ==
    InvalidSelection =>
       /\ StateNow = last.pre.state
       /\ BalanceNow = last.pre.balance
       /\ Len(bets) = last.pre.nrows
       /\ Len(pending) = last.pre.npending

\* A negative index has been refused in select_match.
C8_Witness ==
    /\ InvalidSelection
    /\ last.pre.state.state = "select_match"
    /\ last.body = B_neg1
    /\ StateNow = last.pre.state

-----------------------------------------------------------------------------
\* the last request chose, in select_match, a stored match without outcomes
ZeroOutcomeChoice ==
    /\ Reached
    /\ last.pre.state.state = "select_match"
    /\ IsIntText(last.body)
    /\ IntOf(last.body) \in 1..Len(last.pre.state.matches)
    /\ NOutcomes(last.pre.state.matches[IntOf(last.body)]) = 0

\* select_match becomes place_bet only with a chosen match that has an outcome
PlaceBetOnlyWithOutcomes ==
    /\ Reached
    /\ last.pre.state.state = "select_match"
    /\ StateNow.state = "place_bet"
    => /\ IsIntText(last.body)
       /\ IntOf(last.body) \in 1..Len(last.pre.state.matches)
       /\ StateNow.match = last.pre.state.matches[IntOf(last.body)]
       /\ NOutcomes(StateNow.match) >= 1

\* C9 as stated: choosing a stored match with zero outcomes makes the state
\* idle and sends the no-outcomes message; place_bet needs an outcome.
C9_ZeroOutcomesGoesIdle ==
    /\ ZeroOutcomeChoice =>
          /\ StateNow = [state |-> "idle"]
          /\ last.sent = <<"no_outcomes">>
    /\ PlaceBetOnlyWithOutcomes

\* C9 as amended: choosing a stored match with zero outcomes leaves the state
\* select_match with its payload as it was and sends the no-outcomes message;
\* place_bet needs an outcome.
C9_ZeroOutcomesStaysSelectMatch ==
    /\ ZeroOutcomeChoice =>
          /\ StateNow = last.pre.state
          /\ last.sent = <<"no_outcomes">>
    /\ PlaceBetOnlyWithOutcomes

C9_Witness ==
    /\ ZeroOutcomeChoice
    /\ last.sent = <<"no_outcomes">>
    /\ StateNow.state = "select_match"

-----------------------------------------------------------------------------
\* C10: in place_bet a text that is not the word `bet` followed by a positive
\* integer (for example `bets 1`) leaves the state, the balance and the ledger
\* as they were.
C10_OnlyLiteralBetPlaces ==
    /\ Reached
    /\ last.pre.state.state = "place_bet"
    /\ ~IsExitText(last.body)
    /\ BetN(last.body) = 0
    => /\ StateNow = last.pre.state
       /\ BalanceNow = last.pre.balance
       /\ Len(bets) = last.pre.nrows

-----------------------------------------------------------------------------
\* the last activation was the rest of a select_tournament handler, run when
\* its fetch_matches returned
Resumed == last.kind = "resume"

\* C11: messages of one user are handled one after the other: a handler that
\* changes the sender's conversation state changes the state it read. A
\* handler resumed from fetch_matches does not store select_match (or pop
\* the entry) over a state that an `exit`, or an `exit` and a `start`, of the
\* same user has written since the handler read its state.
C11_NoStaleStateWrite ==
    /\ last.kind \in {"receive", "resume"}
    /\ StateNow # last.pre.state
    => last.pre.state = last.read

-----------------------------------------------------------------------------
\* the last activation ended the handling of a message that had a valid
\* signature and a sender
Handled ==
    /\ last.kind \in {"receive", "resume"}
    /\ last.sigOk
    /\ last.from # ""
    /\ last.status # "await"

\* C12: every message with a valid signature ends with a success status and a
\* chat message to the user, also when the ledger write, the match fetch or
\* the delivery of a message fails: no exception leaves the handler.
C12_AlwaysSuccessAndReply ==
    Handled =>
       /\ last.status = "200"
       /\ last.raised = None
       /\ Len(last.sent) >= 1

-----------------------------------------------------------------------------
\* the match fetch of the resumed handler failed: a timeout or a non-2xx
\* status (httpx.HTTPError), or a body that is not JSON
FetchFailed == Resumed /\ last.response.kind \in {"http_error", "bad_json"}

\* C13: a failed match fetch does not raise into the handler: the user gets
\* the no-matches message and the conversation state becomes idle.
C13_FetchFailureResetsToIdle ==
    FetchFailed =>
       /\ last.raised # "fetch"
       /\ last.sent = <<"no_matches">>
       /\ StateNow = [state |-> "idle"]

\* The part of C13 that holds: a fetch that fails with httpx.HTTPError gives
\* the empty list and, when the no-matches message is delivered, idle.
HttpErrorResetsToIdle ==
    Resumed /\ last.response.kind = "http_error" /\ last.raised = None =>
       /\ last.sent = <<"no_matches">>
       /\ StateNow = [state |-> "idle"]

-----------------------------------------------------------------------------
\* C14: a request with an invalid signature or without a sender creates no
\* account, changes no conversation state, no balance and no Bet row, starts
\* no fetch and sends nothing; the first is answered 403, the second 200.
C14_RejectedRequestsChangeNothing ==
    [][ last'.kind = "receive" /\ (~last'.sigOk \/ last'.from = "") =>
           /\ user_state' = user_state
           /\ users' = users
           /\ bets' = bets
           /\ pending' = pending
           /\ last'.sent = <<>>
           /\ last'.status = IF last'.sigOk THEN "200" ELSE "403" ]_vars

\* `bet 1` with an invalid signature has been refused for a sender in
\* place_bet whose balance covers the bet.
C14_Witness ==
    /\ last.kind = "receive"
    /\ ~last.sigOk
    /\ last.status = "403"
    /\ last.body = B_bet1
    /\ last.pre.state.state = "place_bet"
    /\ last.pre.balance >= BetCost
    /\ StateNow = last.pre.state

-----------------------------------------------------------------------------
\* the last request was the first one of a sender that had no account
FirstContact == Reached /\ last.sigOk /\ ~last.pre.account

\* the replies of the idle branch
IdleReplies == {"sport_list", "account", "invalid_command"}

\* in every state an identifier has at most one account
OneAccountPerIdentifier ==
    \A i, j \in 1..Len(users) :
       users[i].whatsapp_number = users[j].whatsapp_number => i = j

\* C15: the first authenticated message of an unseen sender creates exactly
\* one account for it, with balance InitialBalance, sends the welcome once
\* and is then processed from idle; a message of a sender that has an
\* account creates no account and sends no welcome; an identifier never has
\* two accounts.
C15_AccountCreatedOnceThenProcessed ==
    /\ FirstContact =>
          /\ Len(users) = last.pre.nusers + 1
          /\ Cardinality(user_rows(users, last.from)) = 1
          /\ BalanceNow = InitialBalance
          /\ Len(last.sent) = 2
          /\ last.sent[1] = "welcome"
          /\ last.sent[2] \in IdleReplies
    /\ Handled /\ last.pre.account =>
          /\ Len(users) = last.pre.nusers
          /\ \A i \in 1..Len(last.sent) : last.sent[i] # "welcome"
    /\ OneAccountPerIdentifier

\* The part of C15 that holds: one account per identifier, created with
\* InitialBalance and one welcome at the first contact and never again.
AccountCreatedOnce ==
    /\ FirstContact =>
          /\ Len(users) = last.pre.nusers + 1
          /\ Cardinality(user_rows(users, last.from)) = 1
          /\ BalanceNow = InitialBalance
          /\ last.sent[1] = "welcome"
          /\ \A i \in 2..Len(last.sent) : last.sent[i] # "welcome"
    /\ Handled /\ last.pre.account =>
          /\ Len(users) = last.pre.nusers
          /\ \A i \in 1..Len(last.sent) : last.sent[i] # "welcome"
    /\ OneAccountPerIdentifier

-----------------------------------------------------------------------------
\* C16: an account is never deleted, its identifier and referral code never
\* change, and its balance changes only in the handling of a message in
\* place_bet that is not `exit`, appends a Bet row of that account and sends
\* the confirmation: then it goes down by exactly BetCost.
C16_AccountChangesOnlyByPlacement ==
    [][ /\ Len(users') >= Len(users)
        /\ \A i \in 1..Len(users) :
              /\ users'[i].user_id = users[i].user_id
              /\ users'[i].whatsapp_number = users[i].whatsapp_number
              /\ users'[i].referral_code = users[i].referral_code
              /\ users'[i].coins_balance # users[i].coins_balance =>
                    /\ users'[i].coins_balance = users[i].coins_balance - BetCost
                    /\ last'.kind = "receive"
                    /\ last'.sigOk
                    /\ last'.from = users[i].whatsapp_number
                    /\ last'.pre.state.state = "place_bet"
                    /\ ~IsExitText(last'.body)
                    /\ last'.sent = <<"bet_placed">>
                    /\ Len(bets') = Len(bets) + 1
                    /\ bets'[Len(bets')].user_id = users[i].user_id
                    /\ bets'[Len(bets')].status = "placed" ]_vars

\* A placement has taken BetCost from a balance of InitialBalance.
C16_Witness ==
    /\ ValidBetInPlaceBet
    /\ last.sent = <<"bet_placed">>
    /\ last.pre.balance = InitialBalance
    /\ BalanceNow = InitialBalance - BetCost
    /\ first_user(users, last.from).referral_code = 1

-----------------------------------------------------------------------------
\* C17: the handling of a message of a sender that has an account calls
\* send_whatsapp_message exactly once and appends at most one Bet row.
C17_OneReplyPerMessage ==
    Handled /\ last.pre.account =>
       /\ Len(last.sent) = 1
       /\ Len(bets) - last.pre.nrows \in {0, 1}

\* The part of C17 that holds: one reply unless db.commit, fetch_matches,
\* strptime or int raised, and never two Bet rows.
OneReplyUnlessRaised ==
    Handled /\ last.pre.account =>
       /\ last.raised \in {None, "send"} => Len(last.sent) = 1
       /\ Len(last.sent) <= 1
       /\ Len(bets) - last.pre.nrows \in {0, 1}

-----------------------------------------------------------------------------
\* the conversation states that are further on than idle and are stored
\* before their reply is sent
AdvancedStates == {"select_sport", "select_tournament", "select_match"}

\* C18: a handling whose reply could not be delivered does not leave the
\* sender in an advanced state that it has stored itself.
C18_NoAdvanceWithoutReply ==
    Handled /\ last.raised = "send" =>
       \/ StateNow = last.pre.state
       \/ StateNow.state \notin AdvancedStates

-----------------------------------------------------------------------------
\* the account row of a sender, as a sequence: empty when it has none
AccountOf(urows, from) ==
    IF no_user(urows, from) THEN <<>> ELSE <<first_user(urows, from)>>

\* C19: the handling of a message of one user, and the resumption of its
\* suspended handler, leave every other user's conversation state entry,
\* account and Bet rows as they were, in every interleaving.
C19_UsersIndependent ==
    [][ \A other \in TwoNumbers \ {last'.from} :
           /\ (other \in DOMAIN user_state') = (other \in DOMAIN user_state)
           /\ get_state(user_state', other) = get_state(user_state, other)
           /\ AccountOf(users', other) = AccountOf(users, other)
           /\ bets_of(users', bets', other) = bets_of(users, bets, other) ]_vars

\* u2 has placed a bet from a database that held u1's account and bets, and
\* u1 is in the middle of a conversation.
C19_Witness ==
    /\ last.kind = "receive"
    /\ last.from = "u2"
    /\ last.sent = <<"bet_placed">>
    /\ "u1" \in DOMAIN user_state
    /\ AccountOf(users, "u1") # <<>>
    /\ Len(bets_of(users, bets, "u1")) >= 1
    /\ Len(bets_of(users, bets, "u2")) = 1

-----------------------------------------------------------------------------
\* the conversation state, the balance and the Bet rows of the sender that
\* is on the happy path
PathState == get_state(user_state, path.from)

\* the second `1` of the path has been handled up to its suspension only
PathSuspended == \E i \in 1..Len(pending) : pending[i].from = path.from

\* the states, the balance and the ledger that the sequence is to produce
HappyPathStates ==
    /\ path.step = 1 => PathState.state = "select_sport"
    /\ path.step = 2 => PathState.state = "select_tournament"
    /\ path.step = 3 =>
          PathState.state = IF PathSuspended THEN "select_tournament"
                            ELSE "select_match"
    /\ path.step = 4 => PathState.state = "place_bet"
    /\ path.step = 5 =>
          /\ PathState = [state |-> "idle"]
          /\ first_user(users, path.from).coins_balance = InitialBalance - BetCost
          /\ Len(bets_of(users, bets, path.from)) = 1

\* C20: a new user who sends `start`, `1`, `1`, `1`, `bet 1`, under a catalog
\* whose first sport has an active tournament whose fetch returns a match
\* with an outcome, every reply being delivered, is in select_sport,
\* select_tournament, select_match and place_bet after the first four
\* messages and ends in idle with balance InitialBalance - BetCost and
\* exactly one Bet row.
C20_HappyPath == path.delivered => HappyPathStates

\* The same when no handler of the sequence ends with an exception: the
\* ledger write succeeds too. This holds.
HappyPathWithoutException == path.clean => HappyPathStates

\* the happy path has been walked to its end and the bet is placed
HappyPathCompleted ==
    /\ path.step = 5
    /\ last.sent = <<"bet_placed">>
    /\ PathState = [state |-> "idle"]

-----------------------------------------------------------------------------
(* C21. What a selection text selects. The position of the sport that a    *)
(* text selects in select_sport is read from the tables above: its value   *)
(* when it is an index of the catalog, the position of the sport it names  *)
(* otherwise.                                                              *)

\* the position in the catalog of the sport that a text selects, 0 for none
SportPos(body) ==
    IF body \in {B_1, B_2, B_3} /\ IntOf(body) \in 1..Len(sports_list)
    THEN IntOf(body)
    ELSE IF NamesSport(body)
    THEN CHOOSE i \in 1..Len(sports_list) : sports_list[i].key = SOCCER
    ELSE 0

\* a text that is the name of a sport, a tournament, a team or an outcome,
\* alone or after the word `bet`
IsNameText(body) == body \in {B_soccer, B_epl, B_arsenal, B_betarsenal}

\* the last request was a sport selection handled in select_sport
SportSelected ==
    /\ Reached
    /\ last.pre.state.state = "select_sport"
    /\ SportPos(last.body) # 0

\* the state that the selection of the sport at position pos leads to
AfterSportSelection(pos) ==
    IF NActive(sports_list[pos].key) >= 1
    THEN [state |-> "select_tournament", sport |-> sports_list[pos].key]
    ELSE [state |-> "idle"]

\* a name sent in select_tournament, select_match or place_bet selects nothing
NameSelectsNothing ==
    /\ Reached
    /\ last.pre.state.state \in {"select_tournament", "select_match", "place_bet"}
    /\ IsNameText(last.body)
    => /\ StateNow = last.pre.state
       /\ Len(pending) = last.pre.npending

\* C21: in select_sport a text equal to the 1-based index of a sport of the
\* catalog, or equal case-insensitively to a sport key, selects that sport:
\* the state becomes select_tournament with that sport key when the sport has
\* an active tournament and idle when it has none; tournament, match and
\* outcome selection accept no name.
C21_SportSelection ==
    /\ SportSelected => StateNow = AfterSportSelection(SportPos(last.body))
    /\ NameSelectsNothing

\* The same, for the selections whose reply was delivered. This holds: the
\* selection of a sport without active tournaments ends in idle only when
\* the no-tournaments message has been sent.
SportSelectionWhenDelivered ==
    /\ SportSelected /\ last.raised = None
       => StateNow = AfterSportSelection(SportPos(last.body))
    /\ NameSelectsNothing

\* A sport has been selected by its name, and one without active tournaments
\* by its index with the reply delivered.
SportSelectedByName ==
    SportSelected /\ last.body = B_soccer /\ StateNow.state = "select_tournament"

SportWithoutTournamentsSelected ==
    /\ SportSelected
    /\ NActive(sports_list[SportPos(last.body)].key) = 0
    /\ last.raised = None

\* A tournament title has been sent in select_tournament, a team name in
\* select_match and `bet` with an outcome name in place_bet.
NameSentInSelectTournament ==
    Reached /\ last.pre.state.state = "select_tournament" /\ last.body = B_epl

NameSentInSelectMatch ==
    Reached /\ last.pre.state.state = "select_match" /\ last.body = B_arsenal

NameSentInPlaceBet ==
    Reached /\ last.pre.state.state = "place_bet" /\ last.body = B_betarsenal

-----------------------------------------------------------------------------
(* C22. Which tournament an index selects, and the state after the fetch.  *)

\* the tournaments of a sport of the catalog, active or not
AllTournaments(sport) ==
    sports_list[CHOOSE i \in 1..Len(sports_list) :
                    sports_list[i].key = sport].tournaments

\* the n-th active tournament of a sport, inactive ones skipped: the active
\* tournament with exactly n active tournaments up to and including it
NthActive(sport, n) ==
    LET ts == AllTournaments(sport)
        p == CHOOSE q \in 1..Len(ts) :
                /\ ts[q].active
                /\ Cardinality({k \in 1..q : ts[k].active}) = n
    IN ts[p]

\* a text that is an index into the active tournaments of a sport
IsTournamentIndex(body, sport) ==
    IsIntText(body) /\ IntOf(body) \in 1..NActive(sport)

\* the handler that the last request suspended in fetch_matches
Suspended == pending[Len(pending)]

\* an index sent in select_tournament suspends a handler that fetches the
\* matches of that active tournament
IndexStartsFetch ==
    /\ Reached
    /\ last.pre.state.state = "select_tournament"
    /\ IsTournamentIndex(last.body, last.pre.state.sport)
    => /\ Len(pending) = last.pre.npending + 1
       /\ Suspended.from = last.from
       /\ Suspended.tournament = NthActive(last.pre.state.sport, IntOf(last.body))
       /\ StateNow = last.pre.state

\* no suspended handler holds an inactive tournament
NoInactiveSelected ==
    \A i \in 1..Len(pending) : pending[i].tournament.active

\* a handler has resumed with a non-empty fetched list
FetchedMatches ==
    /\ last.kind = "resume"
    /\ last.response.kind = "json"
    /\ last.response.data # <<>>

\* C22: in select_tournament index i selects the i-th active tournament of
\* the sport, inactive tournaments skipped, so an inactive tournament is
\* never selected; when the fetch for it returns a non-empty list the state
\* becomes select_match with the same sport key, that tournament's title and
\* exactly the fetched list.
C22_TournamentSelection ==
    /\ IndexStartsFetch
    /\ NoInactiveSelected
    /\ FetchedMatches =>
          /\ IsTournamentIndex(last.body, last.read.sport)
          /\ StateNow =
                [state |-> "select_match",
                 sport |-> last.read.sport,
                 tournament |-> NthActive(last.read.sport, IntOf(last.body)).title,
                 matches |-> last.response.data]

\* Index 2 has selected the second active tournament, which is the third of
\* the sport's list, and its fetch has returned matches.
C22_Witness ==
    /\ FetchedMatches
    /\ last.body = B_2
    /\ StateNow.state = "select_match"
    /\ StateNow.tournament = "UCL"
    /\ AllTournaments(last.read.sport)[3].title = "UCL"
    /\ ~AllTournaments(last.read.sport)[1].active

-----------------------------------------------------------------------------
(* C23. The account command. What the report must list is stated on the    *)
(* sender's rows as they are in the table, by counting the rows with a     *)
(* higher id.                                                              *)

\* the text `my account`
IsAccountText(body) == body = B_account

\* the last request was `my account`, handled in idle
AccountCommand ==
    /\ Reached
    /\ last.pre.state.state = "idle"
    /\ IsAccountText(last.body)

\* the number of the sender's rows with a higher bet id than row b
NewerThan(b) ==
    Cardinality({i \in 1..Len(BetsNow) : BetsNow[i].bet_id > b.bet_id})

\* the report lists min(HistoryLimit, n) rows of the sender, the k-th of them
\* being the row with k - 1 newer rows, and counts the n - HistoryLimit older
\* rows exactly when n > HistoryLimit
ReportsRecentBets ==
    LET n == Len(BetsNow)
        shown == last.report.bets
    IN /\ Len(shown) = IF n < HistoryLimit THEN n ELSE HistoryLimit
       /\ \A k \in 1..Len(shown) :
             /\ \E i \in 1..n : BetsNow[i] = shown[k]
             /\ NewerThan(shown[k]) = k - 1
       /\ last.report.more = IF n > HistoryLimit THEN n - HistoryLimit ELSE 0

\* the last handler passed the account message to send_whatsapp_message
AccountSent == \E k \in 1..Len(last.sent) : last.sent[k] = "account"

\* the command changed neither the state, nor a balance, nor a ledger row
AccountChangesNothing ==
    /\ StateNow = [state |-> "idle"]
    /\ BalanceNow = IF last.pre.account THEN last.pre.balance ELSE InitialBalance
    /\ Len(bets) = last.pre.nrows
    /\ Len(BetsNow) = last.pre.nbets

\* the replies to an input that a selection state does not accept
SelectionRejections ==
    [select_sport |-> <<"invalid_sport">>,
     select_tournament |-> <<"invalid_input_tournament">>,
     select_match |-> <<"invalid_input_match">>,
     place_bet |-> <<"invalid_command_place_bet">>]

\* `my account` in a selection state is an input of that state
AccountTextInSelection ==
    /\ Reached
    /\ last.pre.state.state # "idle"
    /\ IsAccountText(last.body)
    => /\ last.sent = SelectionRejections[last.pre.state.state]
       /\ last.report = NoReport
       /\ StateNow = last.pre.state

\* C23: `my account` is a command of the idle state only: there the state
\* stays idle, no balance and no ledger row changes, and the reply reports
\* the user's min(5, n) Bet rows with the highest ids, highest first, plus
\* the count n - 5 of older bets exactly when n > 5; in every other state
\* the text is a selection input.
C23_MyAccount ==
    /\ AccountCommand =>
          /\ AccountChangesNothing
          /\ AccountSent
          /\ ReportsRecentBets
    /\ AccountTextInSelection

\* The same for a sender who has an account, or whose welcome message was
\* delivered. This holds: the report is passed to send_whatsapp_message,
\* delivered or not.
AccountReportAfterWelcome ==
    /\ AccountCommand /\ (last.pre.account \/ last.raised = None) =>
          /\ AccountChangesNothing
          /\ AccountSent
          /\ ReportsRecentBets
    /\ AccountTextInSelection

\* An account with more rows than the report lists has been reported, one
\* with a bet placed in this run, and `my account` has been sent in place_bet.
LongHistoryReported ==
    AccountCommand /\ AccountSent /\ last.report.more > 0

PlacedBetReported ==
    /\ AccountCommand
    /\ AccountSent
    /\ Len(last.report.bets) >= 1
    /\ last.report.bets[1].match_id # "m0"

AccountTextInPlaceBet ==
    Reached /\ last.pre.state.state = "place_bet" /\ IsAccountText(last.body)

-----------------------------------------------------------------------------
(* C24. The payload of the stored conversation state entries.              *)

\* the sport keys of the catalog
CatalogKeys == {sports_list[i].key : i \in 1..Len(sports_list)}

\* what an entry of user_state carries, by its tag
PayloadOk(e) ==
    /\ e.state \in {"select_sport", "select_tournament", "select_match", "place_bet"}
    /\ e.state = "select_tournament" => e.sport \in CatalogKeys
    /\ e.state = "select_match" => e.matches # <<>>
    /\ e.state = "place_bet" => NOutcomes(e.match) >= 1

\* the place_bet entry e was made from the select_match entry m
MadeFrom(e, m) ==
    /\ m.state = "select_match"
    /\ \E i \in 1..Len(m.matches) : m.matches[i] = e.match
    /\ e.sport = m.sport
    /\ e.tournament = m.tournament

\* the last handler left a place_bet entry for its sender: it found it, or it
\* made it from the select_match entry it found
PlaceBetProvenance ==
    /\ last.kind \in {"receive", "resume"}
    /\ last.from \in DOMAIN user_state
    /\ StateNow.state = "place_bet"
    => \/ StateNow = last.pre.state
       \/ last.kind = "receive" /\ MadeFrom(StateNow, last.pre.state)

\* C24: no entry of user_state is tagged idle; a select_tournament entry
\* carries a sport key of the catalog; a select_match entry a non-empty
\* match list; a place_bet entry a match with at least one outcome that was
\* an element of the match list of the select_match entry it came from,
\* with that entry's sport and tournament.
C24_StatePayload ==
    /\ \A u \in DOMAIN user_state : PayloadOk(user_state[u])
    /\ PlaceBetProvenance

\* A place_bet entry has been made by selecting the first match of a list
\* whose second match has no outcome.
C24_Witness ==
    /\ Reached
    /\ last.pre.state.state = "select_match"
    /\ Len(last.pre.state.matches) = 2
    /\ NOutcomes(last.pre.state.matches[2]) = 0
    /\ StateNow.state = "place_bet"
    /\ StateNow.match = last.pre.state.matches[1]

=============================================================================
